---- MODULE Spec2Model ----
(***************************************************************************)
(* Model of src/server.js: an Express application with three routes        *)
(* (GET /transactions, POST /update-client, POST /remove-duplicates) that  *)
(* forward to a remote data service through the supabase-js query builder. *)
(*                                                                         *)
(* A JavaScript string is a sequence of one-character strings, so that     *)
(* parseInt, the template string of the search filter and ILIKE are        *)
(* computed character by character.  The JavaScript values undefined and   *)
(* null are the two sequences Undefined and Null, whose single element is  *)
(* longer than one character and therefore equal to no string.             *)
(*                                                                         *)
(* Every handler is split at its awaits: one action receives the request   *)
(* and runs the handler up to its first remote call, and one action per    *)
(* outcome of each remote call applies the call to the store and runs the  *)
(* handler up to its next await or to its response.                        *)
(***************************************************************************)
EXTENDS Integers, Sequences, FiniteSets, TLC

VARIABLES transactions, companies_data, requests, writes

vars == <<transactions, companies_data, requests, writes>>

(***************************************************************************)
(* Bounds of the model.                                                    *)
(***************************************************************************)
\* Requests the server receives in one behaviour (they run concurrently).
MaxRequests == 2

(***************************************************************************)
(* JavaScript values.                                                      *)
(***************************************************************************)
Undefined == <<"undefined">>
Null == <<"null">>

\* !v for the values a query string or a JSON body field carries here.
IsFalsy(v) == v = Undefined \/ v = Null \/ v = <<>>

\* a || b
OrElse(a, b) == IF IsFalsy(a) THEN b ELSE a

Digits == {"0", "1", "2", "3", "4", "5", "6", "7", "8", "9"}

DigitValue(c) ==
    CASE c = "0" -> 0 [] c = "1" -> 1 [] c = "2" -> 2 [] c = "3" -> 3
      [] c = "4" -> 4 [] c = "5" -> 5 [] c = "6" -> 6 [] c = "7" -> 7
      [] c = "8" -> 8 [] c = "9" -> 9

RECURSIVE SkipSpaces(_)
SkipSpaces(s) == IF s # <<>> /\ Head(s) = " " THEN SkipSpaces(Tail(s)) ELSE s

\* The value of the longest prefix of decimal digits of s, read after acc.
RECURSIVE DigitPrefix(_, _)
DigitPrefix(s, acc) ==
    IF s # <<>> /\ Head(s) \in Digits
    THEN DigitPrefix(Tail(s), 10 * acc + DigitValue(Head(s)))
    ELSE acc

\* parseInt(v): leading blanks, an optional sign, then the longest prefix of
\* digits; NaN when there is no digit (and for undefined).
ParseInt(v) ==
    LET s == SkipSpaces(v)
        neg == s # <<>> /\ Head(s) = "-"
        signed == s # <<>> /\ Head(s) \in {"-", "+"}
        d == IF signed THEN Tail(s) ELSE s
    IN  IF v = Undefined \/ v = Null \/ d = <<>> \/ Head(d) \notin Digits
        THEN [nan |-> TRUE, n |-> 0]
        ELSE [nan |-> FALSE, n |-> IF neg THEN 0 - DigitPrefix(d, 0) ELSE DigitPrefix(d, 0)]

\* parseInt(v) || dflt: NaN and 0 are falsy.
ParseIntOr(v, dflt) ==
    LET p == ParseInt(v) IN IF p.nan \/ p.n = 0 THEN dflt ELSE p.n

(***************************************************************************)
(* The store of the data service: tables transactions and companies_data.  *)
(***************************************************************************)
c1 == <<"1", "1">>
c2 == <<"2", "2">>
paid == <<"p", "a", "i", "d">>
pending == <<"p", "e", "n", "d", "i", "n", "g">>
d1 == <<"2", "0", "2", "4", "-", "0", "1", "-", "0", "5">>
d2 == <<"2", "0", "2", "4", "-", "0", "2", "-", "0", "1">>

\* The rows a transactions table of the model is drawn from.  Rows 1 and 2
\* share nsu and tax identifier (duplicates) and tie on both sort keys; row 3
\* ties with them on the amount only; row 4 carries exactly 10000.
BaseRows ==
    { [id |-> 1, loja |-> <<"A", "b">>, cpf_cnpj_loja |-> c1, tid |-> <<"t", "1">>,
       nsu |-> 7, status |-> paid, data_transacao |-> d2, valor_transacao |-> 20000],
      [id |-> 2, loja |-> <<"A", "b">>, cpf_cnpj_loja |-> c1, tid |-> <<"t", "2">>,
       nsu |-> 7, status |-> pending, data_transacao |-> d2, valor_transacao |-> 20000],
      [id |-> 3, loja |-> <<"b">>, cpf_cnpj_loja |-> c2, tid |-> <<"t", "3">>,
       nsu |-> 8, status |-> paid, data_transacao |-> d1, valor_transacao |-> 20000],
      [id |-> 4, loja |-> <<"c", "_">>, cpf_cnpj_loja |-> c2, tid |-> <<"T", "4">>,
       nsu |-> 9, status |-> pending, data_transacao |-> d1, valor_transacao |-> 10000] }

\* The company row a store may hold before the first request.
ExistingCompany ==
    [cpf_cnpj |-> c1, observation |-> <<"o", "0">>, tasks |-> <<"k", "0">>,
     attachment_url |-> <<"u", "0">>]

CompanyColumns == {"cpf_cnpj", "observation", "tasks", "attachment_url"}

\* Characters in the order the database compares them ("-" before the digits).
CharRank(c) == IF c \in Digits THEN 1 + DigitValue(c) ELSE 0

\* a > b for two dates written yyyy-mm-dd.
RECURSIVE DateAfter(_, _)
DateAfter(a, b) ==
    /\ a # <<>>
    /\ \/ b = <<>>
       \/ CharRank(Head(a)) > CharRank(Head(b))
       \/ Head(a) = Head(b) /\ DateAfter(Tail(a), Tail(b))

(***************************************************************************)
(* ILIKE and the filter string of the search term.                         *)
(***************************************************************************)
Lower(c) ==
    CASE c = "A" -> "a" [] c = "B" -> "b" [] c = "C" -> "c" [] c = "T" -> "t"
      [] OTHER -> c

\* s ILIKE p: "%" stands for any run of characters, "_" for any one
\* character, every other character for itself in either case (the strings
\* of the model hold no escape character).
RECURSIVE ILike(_, _)
ILike(s, p) ==
    IF p = <<>> THEN s = <<>>
    ELSE IF Head(p) = "%"
         THEN ILike(s, Tail(p)) \/ (s # <<>> /\ ILike(Tail(s), p))
         ELSE /\ s # <<>>
              /\ Head(p) = "_" \/ Lower(Head(p)) = Lower(Head(s))
              /\ ILike(Tail(s), Tail(p))

k_loja == <<"l", "o", "j", "a">>
k_cpf_cnpj_loja == <<"c", "p", "f", "_", "c", "n", "p", "j", "_", "l", "o", "j", "a">>
k_tid == <<"t", "i", "d">>
k_ilike == <<"i", "l", "i", "k", "e">>

\* The argument of query.or(...): the template string of the handler.
OrFilter(searchTerm) ==
    k_loja \o <<".">> \o k_ilike \o <<".", "%">> \o searchTerm \o <<"%", ",">>
      \o k_cpf_cnpj_loja \o <<".">> \o k_ilike \o <<".", "%">> \o searchTerm \o <<"%", ",">>
      \o k_tid \o <<".">> \o k_ilike \o <<".", "%">> \o searchTerm \o <<"%">>

\* The pieces of s between the occurrences of sep.
RECURSIVE SplitAcc(_, _, _)
SplitAcc(s, sep, cur) ==
    IF s = <<>> THEN <<cur>>
    ELSE IF Head(s) = sep THEN <<cur>> \o SplitAcc(Tail(s), sep, <<>>)
         ELSE SplitAcc(Tail(s), sep, Append(cur, Head(s)))

Split(s, sep) == SplitAcc(s, sep, <<>>)

\* s up to its first sep (all of s when it has none), and what follows it.
RECURSIVE Before(_, _)
Before(s, sep) ==
    IF s = <<>> \/ Head(s) = sep THEN <<>> ELSE <<Head(s)>> \o Before(Tail(s), sep)

After(s, sep) ==
    LET n == Len(Before(s, sep)) IN IF n >= Len(s) THEN <<>> ELSE SubSeq(s, n + 2, Len(s))

\* "*" is the data service's alias of "%" in a LIKE pattern.
RECURSIVE Pattern(_)
Pattern(v) ==
    IF v = <<>> THEN <<>>
    ELSE <<IF Head(v) = "*" THEN "%" ELSE Head(v)>> \o Pattern(Tail(v))

\* One condition of an or-filter, column.operator.value, as the data service
\* reads it.  The conditions the handler's template can form are ilike
\* conditions on its three columns: ok is FALSE for anything else.
Condition(piece) ==
    LET col == Before(piece, ".")
        rest == After(piece, ".")
        op == Before(rest, ".")
        val == After(rest, ".")
    IN  [ok |-> /\ col \in {k_loja, k_cpf_cnpj_loja, k_tid}
                /\ op = k_ilike
                /\ Len(piece) >= Len(col) + Len(op) + 2,
         column |-> col, value |-> Pattern(val)]

TextColumn(t, col) ==
    CASE col = k_loja -> t.loja
      [] col = k_cpf_cnpj_loja -> t.cpf_cnpj_loja
      [] col = k_tid -> t.tid

Conditions(filter) == LET ps == Split(filter, ",") IN [i \in DOMAIN ps |-> Condition(ps[i])]

\* The data service rejects an or-filter one of whose pieces is no condition.
OrFilterParses(filter) ==
    LET cs == Conditions(filter) IN \A i \in DOMAIN cs : cs[i].ok

\* A row passes an or-filter when it passes one of its conditions.
OrFilterHolds(t, filter) ==
    LET cs == Conditions(filter)
    IN  \E i \in DOMAIN cs : cs[i].ok /\ ILike(TextColumn(t, cs[i].column), cs[i].value)

(***************************************************************************)
(* GET /transactions: the values the handler computes from the query       *)
(* string q, a record of the six parameters (Undefined when absent).       *)
(***************************************************************************)
DefaultPage == 1
DefaultItemsPerPage == 16
HighValue == 10000

k_true == <<"t", "r", "u", "e">>

page(q) == ParseIntOr(q.page, DefaultPage)
itemsPerPage(q) == ParseIntOr(q.itemsPerPage, DefaultItemsPerPage)
startIndex(q) == (page(q) - 1) * itemsPerPage(q)
searchTerm(q) == OrElse(q.search, <<>>)
statusFilter(q) == OrElse(q.status, <<>>)
dateFilter(q) == OrElse(q.data_transacao, <<>>)
above10k(q) == q.above10k = k_true

\* The filters the handler adds to the query, one per truthy parameter; the
\* data service returns the rows that pass all of them.
PassesFilters(t, q) ==
    /\ ~IsFalsy(searchTerm(q)) => OrFilterHolds(t, OrFilter(searchTerm(q)))
    /\ ~IsFalsy(statusFilter(q)) => t.status = statusFilter(q)
    /\ ~IsFalsy(dateFilter(q)) => t.data_transacao = dateFilter(q)
    /\ above10k(q) => t.valor_transacao > HighValue

\* Faulty variant: the last index of the range is one too far.
RangeToOneMore(q) == startIndex(q) + itemsPerPage(q)

\* The first and last index handed to query.range.
RangeFrom(q) == startIndex(q)
RangeTo(q) == startIndex(q) + itemsPerPage(q) - 1

\* The data service refuses a filter it cannot read and a range with a
\* negative offset or limit: such a query has no successful outcome.
QueryRefused(q) ==
    \/ ~IsFalsy(searchTerm(q)) /\ ~OrFilterParses(OrFilter(searchTerm(q)))
    \/ RangeFrom(q) < 0
    \/ RangeTo(q) - RangeFrom(q) + 1 < 0

\* order by valor_transacao descending, then data_transacao descending.
Precedes(a, b) ==
    \/ a.valor_transacao > b.valor_transacao
    \/ a.valor_transacao = b.valor_transacao /\ DateAfter(a.data_transacao, b.data_transacao)

\* The orders the data service may return the rows of S in: rows that tie on
\* both sort keys come in any order.
Orderings(S) ==
    LET n == Cardinality(S)
    IN  { s \in [1..n -> S] :
            /\ \A i, j \in 1..n : i # j => s[i] # s[j]
            /\ \A i, j \in 1..n : i < j => ~Precedes(s[j], s[i]) }

\* The rows of s at the zero-based indexes from..to.
Window(s, from, to) ==
    LET last == IF to + 1 < Len(s) THEN to + 1 ELSE Len(s)
    IN  IF from + 1 > last THEN <<>> ELSE SubSeq(s, from + 1, last)

\* select(`*, companies_data(*)`): a row with its company row embedded.
Embed(t, companies) ==
    LET own == { c \in companies : c.cpf_cnpj = t.cpf_cnpj_loja }
    IN  [row |-> t, companies_data |-> IF own = {} THEN Null ELSE CHOOSE c \in own : TRUE]

MsgListError == "Erro interno do servidor ao buscar transacoes."
MsgBadRequest == "CNPJ e novo status sao obrigatorios."
MsgUpdated == "Dados do cliente atualizados com sucesso!"
MsgUpdateError == "Erro interno do servidor ao atualizar dados."
MsgDuplicatesRemoved == "duplicatas removidas com sucesso."
MsgDuplicatesError == "Erro interno do servidor ao remover duplicatas."

\* res.status(code).json(body)
Respond(req, code, body) ==
    [req EXCEPT !.pc = "done", !.responses = Append(@, [status |-> code, body |-> body])]

NewRequest(kind, input, pc, calls) ==
    [kind |-> kind, input |-> input, pc |-> pc, calls |-> calls, failed |-> "none",
     responses |-> <<>>, sorted |-> <<>>]

\* A request arrives: the handler builds the query and awaits it.
GetTransactionsReceive(q) ==
    /\ Len(requests) < MaxRequests
    /\ requests' = Append(requests, NewRequest("list", q, "await_query", 1))
    /\ UNCHANGED <<transactions, companies_data, writes>>

\* The query succeeds: the page and the count of all matching rows.
QueryOk(r) ==
    /\ requests[r].kind = "list" /\ requests[r].pc = "await_query"
    /\ ~QueryRefused(requests[r].input)
    /\ LET q == requests[r].input
           matching == { t \in transactions : PassesFilters(t, q) }
       IN  \E s \in Orderings(matching) :
             LET rows == Window(s, RangeFrom(q), RangeTo(q))
                 data == [i \in DOMAIN rows |-> Embed(rows[i], companies_data)]
             IN  requests' = [requests EXCEPT ![r] =
                     Respond([@ EXCEPT !.sorted = s], 200,
                             [data |-> data, totalItems |-> Cardinality(matching)])]
    /\ UNCHANGED <<transactions, companies_data, writes>>

\* The query fails, for whatever reason the data service has: the catch
\* block answers 500.
QueryError(r) ==
    /\ requests[r].kind = "list" /\ requests[r].pc = "await_query"
    /\ requests' = [requests EXCEPT ![r] =
           Respond([@ EXCEPT !.failed = "query"], 500, [error |-> MsgListError])]
    /\ UNCHANGED <<transactions, companies_data, writes>>

\* The query strings of the listing specification.
Queries ==
    [page : {Undefined, <<"0">>, <<"1">>, <<"2">>, <<"-", "1">>, <<"x">>},
     itemsPerPage : {Undefined, <<"1">>, <<"2">>, <<"-", "2">>, <<"2", "x">>},
     search : {Undefined, <<"a">>, <<"B">>, <<"1">>, <<"_">>, <<"a", ",", "b">>,
               <<",">> \o k_tid \o <<".">> \o k_ilike \o <<".">>},
     status : {Undefined, paid, pending},
     data_transacao : {Undefined, d1},
     above10k : {Undefined, k_true, <<"1">>}]

(***************************************************************************)
(* POST /update-client.  The body b is a record of the five fields the     *)
(* handler destructures (Undefined when absent).                           *)
(***************************************************************************)
\* Faulty variant: the validation tests the tax identifier alone.
MissingCnpjOnly(b) == IsFalsy(b.cnpj)

\* if (!cnpj || !newStatus)
MissingFields(b) == IsFalsy(b.cnpj) \/ IsFalsy(b.newStatus)

\* Faulty variant: the update without its eq filter.
UpdateStatusUnfiltered(table, cnpj, newStatus) ==
    { [t EXCEPT !.status = newStatus] : t \in table }

\* update({ status: newStatus }).eq('cpf_cnpj_loja', cnpj) on a table.
UpdateStatus(table, cnpj, newStatus) ==
    { IF t.cpf_cnpj_loja = cnpj THEN [t EXCEPT !.status = newStatus] ELSE t : t \in table }

\* The object the handler hands to upsert.
UpsertObject(b) ==
    [c \in CompanyColumns |->
        CASE c = "cpf_cnpj" -> b.cnpj
          [] c = "observation" -> b.newObservation
          [] c = "tasks" -> b.tasks
          [] c = "attachment_url" -> b.attachmentUrl]

\* Faulty variant: undefined is sent as null.
JsonStringifyNulls(obj) == [k \in DOMAIN obj |-> IF obj[k] = Undefined THEN Null ELSE obj[k]]

\* JSON.stringify: the request payload holds no key whose value is undefined.
JsonStringify(obj) == [k \in { k \in DOMAIN obj : obj[k] # Undefined } |-> obj[k]]

\* Faulty variant: an upsert that leaves a row with the same key as it is
\* (ignoreDuplicates).
UpsertIgnoreDuplicates(table, payload) ==
    IF \E c \in table : c.cpf_cnpj = payload["cpf_cnpj"] THEN table
    ELSE table \cup {[c \in CompanyColumns |-> IF c \in DOMAIN payload THEN payload[c] ELSE Null]}

\* Faulty variant: an upsert that appends the observation to the stored one.
UpsertAppending(table, payload) ==
    LET old == { c \in table : c.cpf_cnpj = payload["cpf_cnpj"] }
        fresh == [c \in CompanyColumns |-> IF c \in DOMAIN payload THEN payload[c] ELSE Null]
        merged(row) ==
            [c \in CompanyColumns |->
                IF c \notin DOMAIN payload THEN row[c]
                ELSE IF c = "observation" /\ row[c] # Null /\ payload[c] # Null
                     THEN row[c] \o payload[c]
                     ELSE payload[c]]
    IN  IF old = {} THEN table \cup {fresh}
        ELSE (table \ old) \cup { merged(row) : row \in old }

\* upsert(payload, { onConflict: 'cpf_cnpj' }): insert the payload's columns,
\* the others null; on a row with the same key, set the payload's columns
\* and leave the others.
Upsert(table, payload) ==
    LET old == { c \in table : c.cpf_cnpj = payload["cpf_cnpj"] }
        fresh == [c \in CompanyColumns |-> IF c \in DOMAIN payload THEN payload[c] ELSE Null]
        merged(row) == [c \in CompanyColumns |-> IF c \in DOMAIN payload THEN payload[c] ELSE row[c]]
    IN  IF old = {} THEN table \cup {fresh}
        ELSE (table \ old) \cup { merged(row) : row \in old }

\* What a write leaves in the store.
Written(r, op, txs, companies) ==
    [req |-> r, op |-> op, transactions |-> txs, companies_data |-> companies]

\* A request arrives: 400 when a required field is missing, else the
\* handler issues the status update and awaits it.
UpdateClientReceive(b) ==
    /\ Len(requests) < MaxRequests
    /\ requests' = Append(requests,
           IF MissingFields(b)
           THEN Respond(NewRequest("update", b, "start", 0), 400, [error |-> MsgBadRequest])
           ELSE NewRequest("update", b, "await_status", 1))
    /\ UNCHANGED <<transactions, companies_data, writes>>

\* Step 1 succeeds: the rows are updated and the handler issues the upsert.
StatusUpdateOk(r) ==
    /\ requests[r].kind = "update" /\ requests[r].pc = "await_status"
    /\ transactions' = UpdateStatus(transactions, requests[r].input.cnpj, requests[r].input.newStatus)
    /\ requests' = [requests EXCEPT ![r].pc = "await_upsert", ![r].calls = @ + 1]
    /\ writes' = Append(writes, Written(r, "update", transactions', companies_data))
    /\ UNCHANGED companies_data

\* Faulty variant: statusError is not thrown, the handler goes on to step 2.
StatusUpdateErrorContinue(r) ==
    /\ requests[r].kind = "update" /\ requests[r].pc = "await_status"
    /\ requests' = [requests EXCEPT ![r].failed = "update", ![r].pc = "await_upsert",
                                    ![r].calls = @ + 1]
    /\ UNCHANGED <<transactions, companies_data, writes>>

\* Step 1 fails: throw statusError, the catch block answers 500.
StatusUpdateError(r) ==
    /\ requests[r].kind = "update" /\ requests[r].pc = "await_status"
    /\ requests' = [requests EXCEPT ![r] =
           Respond([@ EXCEPT !.failed = "update"], 500, [error |-> MsgUpdateError])]
    /\ UNCHANGED <<transactions, companies_data, writes>>

\* Step 2 succeeds: the company row is upserted and the handler answers 200.
UpsertOk(r) ==
    /\ requests[r].kind = "update" /\ requests[r].pc = "await_upsert"
    /\ companies_data' = Upsert(companies_data, JsonStringify(UpsertObject(requests[r].input)))
    /\ requests' = [requests EXCEPT ![r] = Respond(@, 200, [message |-> MsgUpdated])]
    /\ writes' = Append(writes, Written(r, "upsert", transactions, companies_data'))
    /\ UNCHANGED transactions

\* Faulty variant: companyError is not thrown, the handler answers 200.
UpsertErrorIgnored(r) ==
    /\ requests[r].kind = "update" /\ requests[r].pc = "await_upsert"
    /\ requests' = [requests EXCEPT ![r] =
           Respond([@ EXCEPT !.failed = "upsert"], 200, [message |-> MsgUpdated])]
    /\ UNCHANGED <<transactions, companies_data, writes>>

\* Step 2 fails: throw companyError, the catch block answers 500.
UpsertError(r) ==
    /\ requests[r].kind = "update" /\ requests[r].pc = "await_upsert"
    /\ requests' = [requests EXCEPT ![r] =
           Respond([@ EXCEPT !.failed = "upsert"], 500, [error |-> MsgUpdateError])]
    /\ UNCHANGED <<transactions, companies_data, writes>>

(***************************************************************************)
(* POST /remove-duplicates.                                                *)
(***************************************************************************)
\* The tables the procedure remove_duplicate_transactions may leave: of the
\* rows that share nsu and tax identifier, one is kept.
Deduplicated(table) ==
    { kept \in SUBSET table :
        \A t \in table :
            Cardinality({ u \in kept : u.nsu = t.nsu /\ u.cpf_cnpj_loja = t.cpf_cnpj_loja }) = 1 }

\* A request arrives: the handler calls the procedure and awaits it.
RemoveDuplicatesReceive ==
    /\ Len(requests) < MaxRequests
    /\ requests' = Append(requests, NewRequest("dedup", <<>>, "await_rpc", 1))
    /\ UNCHANGED <<transactions, companies_data, writes>>

\* The procedure succeeds and returns the number of rows it removed.
RpcOk(r) ==
    /\ requests[r].kind = "dedup" /\ requests[r].pc = "await_rpc"
    /\ \E kept \in Deduplicated(transactions) :
         /\ transactions' = kept
         /\ requests' = [requests EXCEPT ![r] =
                Respond(@, 200, [message |-> <<Cardinality(transactions) - Cardinality(kept),
                                                MsgDuplicatesRemoved>>])]
    /\ writes' = Append(writes, Written(r, "rpc", transactions', companies_data))
    /\ UNCHANGED companies_data

\* The procedure fails: the catch block answers 500.
RpcError(r) ==
    /\ requests[r].kind = "dedup" /\ requests[r].pc = "await_rpc"
    /\ requests' = [requests EXCEPT ![r] =
           Respond([@ EXCEPT !.failed = "rpc"], 500, [error |-> MsgDuplicatesError])]
    /\ UNCHANGED <<transactions, companies_data, writes>>

(***************************************************************************)
(* Inputs and specifications.                                              *)
(***************************************************************************)
o1 == <<"o", "1">>
o2 == <<"o", "2">>
k1 == <<"k", "1">>
u1 == <<"u", "1">>

\* The bodies of the re-sending client.
Bodies ==
    [cnpj : {Undefined, Null, <<>>, c1, c2},
     newStatus : {Undefined, Null, <<>>, paid, pending},
     newObservation : {Undefined, Null, o1},
     tasks : {Undefined, k1},
     attachmentUrl : {Undefined, u1}]

\* The bodies and query strings of the concurrent requests.
ConcurrentBodies ==
    [cnpj : {c1}, newStatus : {paid, pending}, newObservation : {o1, o2},
     tasks : {Undefined, k1}, attachmentUrl : {Undefined}]
      \cup [cnpj : {c1}, newStatus : {Undefined}, newObservation : {o1},
            tasks : {Undefined}, attachmentUrl : {Undefined}]

ConcurrentQueries ==
    [page : {Undefined, <<"-", "1">>}, itemsPerPage : {<<"2">>}, search : {Undefined},
     status : {paid}, data_transacao : {Undefined}, above10k : {Undefined}]

Stores ==
    /\ transactions \in SUBSET BaseRows
    /\ companies_data \in {{}, {ExistingCompany}}

\* Any store, before the first request.
InitStores ==
    /\ Stores
    /\ requests = <<>>
    /\ writes = <<>>

\* The full table, with or without a company row, before the first request.
Init ==
    /\ transactions = BaseRows
    /\ companies_data \in {{}, {ExistingCompany}}
    /\ requests = <<>>
    /\ writes = <<>>

Next ==
    \/ \E q \in ConcurrentQueries : GetTransactionsReceive(q)
    \/ \E b \in ConcurrentBodies : UpdateClientReceive(b)
    \/ RemoveDuplicatesReceive
    \/ \E r \in DOMAIN requests : QueryOk(r)
    \/ \E r \in DOMAIN requests : QueryError(r)
    \/ \E r \in DOMAIN requests : StatusUpdateOk(r)
    \/ \E r \in DOMAIN requests : StatusUpdateError(r)
    \/ \E r \in DOMAIN requests : UpsertOk(r)
    \/ \E r \in DOMAIN requests : UpsertError(r)
    \/ \E r \in DOMAIN requests : RpcOk(r)
    \/ \E r \in DOMAIN requests : RpcError(r)

\* The server under concurrent requests of the three routes.
Spec == Init /\ [][Next]_vars

ListReceive == requests = <<>> /\ \E q \in Queries : GetTransactionsReceive(q)

NextList ==
    \/ ListReceive
    \/ \E r \in DOMAIN requests : QueryOk(r)
    \/ \E r \in DOMAIN requests : QueryError(r)

\* One listing request over any store.
SpecList == InitStores /\ [][NextList]_vars

\* Every request so far has been answered.
AllAnswered == \A r \in DOMAIN requests : requests[r].pc = "done"

\* The first body is any body; every later one repeats it.
RerunReceive ==
    /\ AllAnswered
    /\ \E b \in (IF requests = <<>> THEN Bodies ELSE {requests[Len(requests)].input}) :
         UpdateClientReceive(b)

NextRerun ==
    \/ RerunReceive
    \/ \E r \in DOMAIN requests : StatusUpdateOk(r)
    \/ \E r \in DOMAIN requests : StatusUpdateError(r)
    \/ \E r \in DOMAIN requests : UpsertOk(r)
    \/ \E r \in DOMAIN requests : UpsertError(r)

\* A client that sends one update and re-sends it after each answer, over
\* any store.
SpecRerun == InitStores /\ [][NextRerun]_vars

(***************************************************************************)
(* Properties.                                                             *)
(***************************************************************************)
Answer(r) == requests[r].responses[1]

\* Request r has been answered once, with this status.
AnsweredOnce(r, code) ==
    /\ requests[r].pc = "done"
    /\ Len(requests[r].responses) = 1
    /\ Answer(r).status = code

\* The indexes of the writes request r has made to the store.
WritesBy(r) == { i \in DOMAIN writes : writes[i].req = r }

\* The index of the last write of kind op made for tax identifier cnpj (0: none).
LastWrite(op, cnpj) ==
    LET is == { i \in DOMAIN writes :
                  /\ writes[i].op = op
                  /\ requests[writes[i].req].input.cnpj = cnpj }
    IN  IF is = {} THEN 0 ELSE CHOOSE i \in is : \A j \in is : j <= i

\* The store as request r's write of kind op left it.
StoreAfter(r, op) ==
    LET i == CHOOSE i \in WritesBy(r) : writes[i].op = op
    IN  <<writes[i].transactions, writes[i].companies_data>>

\* The company rows of a table for one tax identifier.
CompanyRows(table, cnpj) == { c \in table : c.cpf_cnpj = cnpj }

\* The fields of a company row that body b supplies are those of b.
HoldsSupplied(c, b) ==
    /\ b.newObservation # Undefined => c.observation = b.newObservation
    /\ b.tasks # Undefined => c.tasks = b.tasks
    /\ b.attachmentUrl # Undefined => c.attachment_url = b.attachmentUrl

\* C1: an update-client request whose cnpj or newStatus is absent (undefined
\* or null) or empty is answered 400, once, has issued no remote call and has written nothing
\* to the store.
C1_MissingFieldsRejected ==
    \A r \in DOMAIN requests :
        LET b == requests[r].input
        IN  (requests[r].kind = "update"
               /\ (b.cnpj \in {Undefined, Null, <<>>}
                     \/ b.newStatus \in {Undefined, Null, <<>>}))
            => /\ AnsweredOnce(r, 400)
               /\ Answer(r).body = [error |-> MsgBadRequest]
               /\ requests[r].calls = 0
               /\ WritesBy(r) = {}

C1_Witness ==
    \E r \in DOMAIN requests :
        /\ requests[r].kind = "update"
        /\ requests[r].input.cnpj = c1
        /\ requests[r].input.newStatus = <<>>
        /\ AnsweredOnce(r, 400)
        /\ transactions # {} /\ companies_data # {}

\* C2: when step 1 of a valid update-client request succeeds, every
\* transaction of its tax identifier has the new status and no other field
\* or row changes; when step 2 succeeds too, those transactions still have
\* the new status, one company row of that tax identifier exists and holds
\* the supplied observation, tasks and attachment, and the answer is 200.
C2_UpdateApplied ==
    [][\A r \in DOMAIN requests :
         LET b == requests[r].input
         IN  /\ (requests[r].pc = "await_status" /\ requests'[r].pc = "await_upsert")
                => /\ \A t \in transactions' :
                        t.cpf_cnpj_loja = b.cnpj => t.status = b.newStatus
                   /\ \A t \in transactions :
                        IF t.cpf_cnpj_loja = b.cnpj
                        THEN [t EXCEPT !.status = b.newStatus] \in transactions'
                        ELSE t \in transactions'
                   /\ { t.id : t \in transactions' } = { t.id : t \in transactions }
                   /\ Cardinality(transactions') = Cardinality(transactions)
                   /\ companies_data' = companies_data
             /\ (requests[r].pc = "await_upsert" /\ requests'[r].pc = "done"
                   /\ requests'[r].failed = "none")
                => /\ \A t \in transactions' :
                        t.cpf_cnpj_loja = b.cnpj => t.status = b.newStatus
                   /\ transactions' = transactions
                   /\ Cardinality(CompanyRows(companies_data', b.cnpj)) = 1
                   /\ \A c \in CompanyRows(companies_data', b.cnpj) : HoldsSupplied(c, b)
                   /\ \A c \in companies_data : c.cpf_cnpj # b.cnpj => c \in companies_data'
                   /\ requests'[r].responses = <<[status |-> 200, body |-> [message |-> MsgUpdated]]>>
      ]_vars

C2_Witness ==
    \E r \in DOMAIN requests :
        LET b == requests[r].input
        IN  /\ requests[r].kind = "update" /\ AnsweredOnce(r, 200)
            /\ b.cnpj = c2 /\ b.newStatus = paid
            /\ [cpf_cnpj |-> c2, observation |-> o1, tasks |-> k1, attachment_url |-> u1]
                 \in companies_data
            /\ ExistingCompany \in companies_data
            /\ \E t \in transactions : t.id = 4 /\ t.status = paid
            /\ \E t \in transactions : t.id = 2 /\ t.status = pending

\* C3: when step 2 of update-client fails after step 1 succeeded, the answer
\* is 500, the failing step changes nothing in the store, the transactions
\* keep the status step 1 gave them, and the company table is the one
\* step 1 found and left.
C3_PartialFailure ==
    [][\A r \in DOMAIN requests :
         LET b == requests[r].input
         IN  (requests[r].pc = "await_upsert" /\ requests'[r].pc = "done"
                /\ requests'[r].failed = "upsert")
             => /\ requests'[r].responses = <<[status |-> 500, body |-> [error |-> MsgUpdateError]]>>
                /\ transactions' = transactions
                /\ companies_data' = companies_data
                /\ \A t \in transactions' :
                     t.cpf_cnpj_loja = b.cnpj => t.status = b.newStatus
                /\ StoreAfter(r, "update")[2] = companies_data'
      ]_vars

C3_Witness ==
    \E r \in DOMAIN requests :
        LET b == requests[r].input
        IN  /\ requests[r].kind = "update" /\ requests[r].failed = "upsert"
            /\ AnsweredOnce(r, 500)
            /\ b.cnpj = c2 /\ b.newStatus = paid /\ b.newObservation = o1
            /\ \E t \in transactions : t.id = 4 /\ t.status = paid
            /\ CompanyRows(companies_data, c2) = {}

\* C4: with concurrent update-client requests the store holds, for each tax
\* identifier, the status written by the request whose step 1 ran last and
\* the company fields supplied by the request whose step 2 ran last.
C4_LastWriteWins ==
    \A cnpj \in {c1, c2} :
        LET i == LastWrite("update", cnpj)
            j == LastWrite("upsert", cnpj)
        IN  /\ i # 0 => \A t \in transactions :
                           t.cpf_cnpj_loja = cnpj
                             => t.status = requests[writes[i].req].input.newStatus
            /\ j # 0 => /\ CompanyRows(companies_data, cnpj) # {}
                        /\ \A c \in CompanyRows(companies_data, cnpj) :
                             HoldsSupplied(c, requests[writes[j].req].input)

\* Both requests answered 200; the status is the first one's and the company
\* row the second one's, or the other way round.
C4_Witness ==
    \E r1, r2 \in DOMAIN requests :
        /\ r1 # r2
        /\ requests[r1].kind = "update" /\ requests[r2].kind = "update"
        /\ AnsweredOnce(r1, 200) /\ AnsweredOnce(r2, 200)
        /\ requests[r1].input.cnpj = c1 /\ requests[r2].input.cnpj = c1
        /\ requests[r1].input.newStatus = paid /\ requests[r2].input.newStatus = pending
        /\ requests[r1].input.newObservation = o1 /\ requests[r2].input.newObservation = o2
        /\ \E t \in transactions : t.cpf_cnpj_loja = c1
        /\ \A t \in transactions : t.cpf_cnpj_loja = c1 => t.status = paid
        /\ \A c \in CompanyRows(companies_data, c1) : c.observation = o2
        /\ CompanyRows(companies_data, c1) # {}

\* The generic message of a route.
GenericMessage(kind) ==
    CASE kind = "list" -> MsgListError
      [] kind = "update" -> MsgUpdateError
      [] kind = "dedup" -> MsgDuplicatesError

\* C5: a request one of whose remote calls failed has been answered once,
\* with 500 and the generic message of its route, and the failed call is the
\* last one it issued: one call when the query, the status update or the
\* procedure failed, two when the upsert failed; it has written to the store
\* only by the calls that succeeded before.
C5_ErrorIsFinal ==
    \A r \in DOMAIN requests :
        requests[r].failed # "none"
        => /\ AnsweredOnce(r, 500)
           /\ Answer(r).body = [error |-> GenericMessage(requests[r].kind)]
           /\ requests[r].calls = (IF requests[r].failed = "upsert" THEN 2 ELSE 1)
           /\ Cardinality(WritesBy(r)) = requests[r].calls - 1
           /\ \A i \in WritesBy(r) : writes[i].op = "update"

\* A failed status update beside a failed listing query: step 2 was never
\* attempted, nothing was written.
C5_Witness ==
    \E r1, r2 \in DOMAIN requests :
        /\ requests[r1].failed = "update" /\ AnsweredOnce(r1, 500)
        /\ requests[r1].calls = 1
        /\ requests[r2].failed = "query" /\ AnsweredOnce(r2, 500)
        /\ writes = <<>> /\ companies_data = {}

\* C6: when an update-client request that succeeded is followed by the same
\* request, which succeeds too, with no other write in between, the store
\* after the second run is the store after the first.
C6_Idempotent ==
    \A r \in DOMAIN requests :
        (/\ r > 1
         /\ requests[r].kind = "update" /\ requests[r - 1].kind = "update"
         /\ requests[r].input = requests[r - 1].input
         /\ requests[r].pc = "done" /\ requests[r].failed = "none" /\ requests[r].calls = 2
         /\ requests[r - 1].pc = "done" /\ requests[r - 1].failed = "none"
         /\ requests[r - 1].calls = 2)
        => /\ StoreAfter(r, "upsert") = StoreAfter(r - 1, "upsert")
           /\ r = Len(requests) => <<transactions, companies_data>> = StoreAfter(r - 1, "upsert")

C6_Witness ==
    /\ Len(requests) >= 2
    /\ AnsweredOnce(1, 200) /\ AnsweredOnce(2, 200)
    /\ requests[1].input = requests[2].input
    /\ requests[1].input.cnpj = c1 /\ requests[1].input.newStatus = pending
    /\ requests[1].input.newObservation = o1
    /\ Len(writes) = 4
    /\ \E t \in transactions : t.id = 1 /\ t.status = pending
    /\ \E c \in companies_data : c.cpf_cnpj = c1 /\ c.observation = o1 /\ c.tasks = <<"k", "0">>

\* The successful step 2 of request r happens in this step.
UpsertDone(r) ==
    /\ requests[r].pc = "await_upsert"
    /\ requests'[r].pc = "done"
    /\ requests'[r].failed = "none"

\* b's value for a company column.
Supplied(b, col) ==
    CASE col = "observation" -> b.newObservation
      [] col = "tasks" -> b.tasks
      [] col = "attachment_url" -> b.attachmentUrl

\* C7 as claimed: after a successful step 2 the company row holds, for each
\* of observation, tasks and attachment, the supplied value, and null where
\* the request supplied none.
C7_WholeRowReplaced ==
    [][\A r \in DOMAIN requests :
         UpsertDone(r)
         => \A c \in CompanyRows(companies_data', requests[r].input.cnpj) :
              \A col \in CompanyColumns \ {"cpf_cnpj"} :
                 c[col] = (IF Supplied(requests[r].input, col) = Undefined THEN Null
                           ELSE Supplied(requests[r].input, col))
      ]_vars

\* C7 as amended: after a successful step 2 the company row holds the
\* supplied value of every field the request supplies (null included); a
\* field it does not supply keeps the value of the row that existed, and is
\* null in a row the request created.
C7_SuppliedFieldsMerged ==
    [][\A r \in DOMAIN requests :
         UpsertDone(r)
         => LET b == requests[r].input
                old == CompanyRows(companies_data, b.cnpj)
            IN  /\ Cardinality(CompanyRows(companies_data', b.cnpj)) = 1
                /\ \A c \in CompanyRows(companies_data', b.cnpj) :
                     \A col \in CompanyColumns \ {"cpf_cnpj"} :
                        IF Supplied(b, col) # Undefined THEN c[col] = Supplied(b, col)
                        ELSE IF old = {} THEN c[col] = Null
                        ELSE \A o \in old : c[col] = o[col]
      ]_vars

C7_Witness ==
    \E r \in DOMAIN requests :
        /\ requests[r].kind = "update" /\ AnsweredOnce(r, 200)
        /\ requests[r].input.cnpj = c1
        /\ requests[r].input.newObservation = o1
        /\ requests[r].input.tasks = Undefined
        /\ requests[r].input.attachmentUrl = Undefined
        /\ [cpf_cnpj |-> c1, observation |-> o1, tasks |-> <<"k", "0">>,
            attachment_url |-> <<"u", "0">>] \in companies_data

\* The larger and the smaller of two integers.
Max(a, b) == IF a > b THEN a ELSE b
Min(a, b) == IF a < b THEN a ELSE b

\* C8: a listing answered 200 for a page >= 1 of itemsPerPage >= 1 rows
\* returns the rows of the sorted matching rows from offset
\* (page - 1) * itemsPerPage on, itemsPerPage of them or as many as are left,
\* and totalItems is the number of all matching rows.
C8_PageWindow ==
    \A r \in DOMAIN requests :
        LET q == requests[r].input
        IN  (requests[r].kind = "list" /\ AnsweredOnce(r, 200)
               /\ page(q) >= 1 /\ itemsPerPage(q) >= 1)
            => LET data == Answer(r).body.data
                   all == requests[r].sorted
                   offset == (page(q) - 1) * itemsPerPage(q)
               IN  /\ Len(data) <= itemsPerPage(q)
                   /\ Len(data) = Max(0, Min(itemsPerPage(q), Len(all) - offset))
                   /\ \A i \in DOMAIN data : data[i].row = all[offset + i]
                   /\ { all[i] : i \in DOMAIN all } = { t \in transactions : PassesFilters(t, q) }
                   /\ \A i, j \in DOMAIN all :
                        i < j => all[i].valor_transacao >= all[j].valor_transacao
                   /\ Answer(r).body.totalItems = Cardinality({ t \in transactions : PassesFilters(t, q) })
                   /\ Answer(r).body.totalItems = Len(all)

\* Page 2 of one row each, of three matching rows.
C8_Witness ==
    \E r \in DOMAIN requests :
        /\ requests[r].kind = "list" /\ AnsweredOnce(r, 200)
        /\ requests[r].input.page = <<"2">>
        /\ requests[r].input.itemsPerPage = <<"1">>
        /\ requests[r].input.above10k = k_true
        /\ Answer(r).body.totalItems = 3
        /\ Len(Answer(r).body.data) = 1
        /\ Answer(r).body.data[1].row.id = 2

\* C9 as claimed: every row of a listing answered 200 passes every filter
\* whose parameter is present and not empty: its status is the status
\* parameter, its date the date parameter, its amount is above 10000 when
\* above10k is "true", and one of its store name, tax identifier and
\* transaction identifier matches the search term, read as the pattern
\* %term% of a case-insensitive LIKE.
C9_FiltersConjunctive ==
    \A r \in DOMAIN requests :
        (requests[r].kind = "list" /\ AnsweredOnce(r, 200))
        => LET q == requests[r].input
               data == Answer(r).body.data
           IN  \A i \in DOMAIN data :
                 LET t == data[i].row
                 IN  /\ q.status \notin {Undefined, <<>>} => t.status = q.status
                     /\ q.data_transacao \notin {Undefined, <<>>}
                          => t.data_transacao = q.data_transacao
                     /\ q.above10k = k_true => t.valor_transacao > 10000
                     /\ q.search \notin {Undefined, <<>>}
                          => \E f \in {t.loja, t.cpf_cnpj_loja, t.tid} :
                               ILike(f, <<"%">> \o q.search \o <<"%">>)

\* C10 as claimed: the page a listing uses is at least 1 and the offset it
\* hands to the data service is not negative, whatever the parameters.
C10_PageAtLeastOne ==
    \A r \in DOMAIN requests :
        requests[r].kind = "list"
        => /\ page(requests[r].input) >= 1
           /\ startIndex(requests[r].input) >= 0
           /\ requests[r].input.page = Undefined => page(requests[r].input) = 1
           /\ requests[r].input.itemsPerPage = Undefined => itemsPerPage(requests[r].input) = 16

====
